---- MODULE Spec2Model ----
(***************************************************************************)
(* A model of S3Cache (src/s3_cache/s3_cache.py), the flask-caching        *)
(* backend that keeps every cache value as one pickled object in an S3     *)
(* bucket.  The handlers get, delete, set, add, clear and has are          *)
(* translated statement by statement; the boto3 client, io.BytesIO and     *)
(* pickle are modelled by what the handlers rely on.                       *)
(***************************************************************************)
EXTENDS Naturals, Sequences, FiniteSets, TLC

(* Bounds of the model: how many cache keys and picklable values the       *)
(* callers use.                                                            *)
NumKeys == 2
NumValues == 2

(* def __init__(..., default_timeout=300, ...)                             *)
default_timeout == 300

Keys == {"k" \o ToString(i) : i \in 1..NumKeys}
Values == {"v" \o ToString(i) : i \in 1..NumValues}
(* An object pickle cannot encode (a lambda, an open socket, ...).         *)
Unpicklable == "lambda"
Objects == Values \cup {Unpicklable}
(* timeout=None is <<>>, timeout=n is <<n>>.                               *)
Timeouts == {<<>>, <<0>>}

(***************************************************************************)
(* io.BytesIO: a byte buffer with a stream position.                       *)
(***************************************************************************)
BytesIO == [buf |-> <<>>, pos |-> 0]

write(file, data) ==
  [buf |-> SubSeq(file.buf, 1, file.pos) \o data
             \o SubSeq(file.buf, file.pos + Len(data) + 1, Len(file.buf)),
   pos |-> file.pos + Len(data)]

seek(file, offset) == [file EXCEPT !.pos = offset]

(* read() returns the bytes from the stream position to the end.           *)
read(file) == SubSeq(file.buf, file.pos + 1, Len(file.buf))

(***************************************************************************)
(* pickle: dump frames the object between a protocol header and the STOP   *)
(* opcode and leaves the position at the end of the buffer; load decodes   *)
(* one frame from the stream position and raises on anything else.         *)
(***************************************************************************)
pickle_dump(obj, file) ==
  IF obj \notin Values
    THEN [raised |-> "PicklingError", file |-> file]
    ELSE [raised |-> "none", file |-> write(file, <<"PROTO", obj, "STOP">>)]

pickle_load(file) ==
  LET data == read(file) IN
  IF data = <<>> THEN [raised |-> "EOFError", value |-> "None"]
  ELSE IF data[1] # "PROTO" THEN [raised |-> "UnpicklingError", value |-> "None"]
  ELSE IF Len(data) < 3 THEN [raised |-> "EOFError", value |-> "None"]
  ELSE IF data[3] # "STOP" THEN [raised |-> "UnpicklingError", value |-> "None"]
  ELSE [raised |-> "none", value |-> data[2]]

(* The bytes of an object some other program put in the bucket: no pickle. *)
ForeignBlobs == {<<"junk">>}

(***************************************************************************)
(* The S3 client.  b is the content of the bucket, a function from object  *)
(* keys to bytes; fail is the set of requests the backend fails during     *)
(* this call (outage, throttling, permission denial).  Generated client    *)
(* methods (head_object, delete_object) accept keyword arguments only and  *)
(* raise TypeError, before any request is sent, when called with           *)
(* positional ones; the injected transfer methods (download_fileobj,       *)
(* upload_fileobj) take positional arguments.                              *)
(***************************************************************************)
NoKwargs == <<>>

head_object(b, args, kwargs, fail) ==
  IF Len(args) > 0 THEN [outcome |-> "TypeError", bucket |-> b]
  ELSE IF "head_object" \in fail THEN [outcome |-> "Error", bucket |-> b]
  ELSE IF kwargs.Key \notin DOMAIN b THEN [outcome |-> "NotFound", bucket |-> b]
  ELSE [outcome |-> "ok", bucket |-> b]

delete_object(b, args, kwargs, fail) ==
  IF Len(args) > 0 THEN [outcome |-> "TypeError", bucket |-> b]
  ELSE IF "delete_object" \in fail THEN [outcome |-> "Error", bucket |-> b]
  ELSE [outcome |-> "ok",
        bucket |-> [o \in DOMAIN b \ {kwargs.Key} |-> b[o]]]

download_fileobj(b, Bucket, Key, Fileobj, fail) ==
  IF "download_fileobj" \in fail
    THEN [outcome |-> "Error", bucket |-> b, Fileobj |-> Fileobj]
  ELSE IF Key \notin DOMAIN b
    THEN [outcome |-> "NotFound", bucket |-> b, Fileobj |-> Fileobj]
  ELSE [outcome |-> "ok", bucket |-> b, Fileobj |-> write(Fileobj, b[Key])]

upload_fileobj(b, Fileobj, Bucket, Key, fail) ==
  IF "upload_fileobj" \in fail
    THEN [outcome |-> "Error", bucket |-> b]
  ELSE [outcome |-> "ok",
        bucket |-> [o \in DOMAIN b \cup {Key} |->
                      IF o = Key THEN read(Fileobj) ELSE b[o]]]

(* One entry of a call's request log.                                      *)
Req(name, r) == <<[name |-> name, outcome |-> r.outcome]>>

(***************************************************************************)
(* What a handler does: the value it returns or the exception it raises,   *)
(* the bucket it leaves, and the client calls it made, in order.           *)
(***************************************************************************)
Return(ret, b, reqs) ==
  [ret |-> ret, raised |-> "none", bucket |-> b, reqs |-> reqs]

Raise(exc, b, reqs) ==
  [ret |-> "NoReturn", raised |-> exc, bucket |-> b, reqs |-> reqs]

(***************************************************************************)
(* S3Cache.  self is the adapter: bucket_name, key_prefix and              *)
(* default_timeout as __init__ stored them.                                *)
(***************************************************************************)
(* Variant of _get_full_key that drops the cache key.                      *)
_get_full_key_prefix_only(self, key) == self.key_prefix

(* Variant of _get_full_key that leaves the prefix out.                    *)
_get_full_key_without_prefix(self, key) == key

_get_full_key(self, key) == self.key_prefix \o key

(* try: head_object(Bucket=..., Key=...) / except Exception: return False  *)
(* / else: return True                                                     *)
_key_exists(self, b, key, fail) ==
  LET r == head_object(b, <<>>,
                       [Bucket |-> self.bucket_name,
                        Key |-> _get_full_key(self, key)], fail)
  IN [ret |-> (r.outcome = "ok"), reqs |-> Req("head_object", r)]

(* Variant of get without the existence probe.                             *)
get_without_check(self, b, key, fail) ==
  LET value_file == BytesIO
      d == download_fileobj(b, self.bucket_name, _get_full_key(self, key),
                            value_file, fail)
      reqs == Req("download_fileobj", d)
  IN IF d.outcome # "ok" THEN Return("None", b, reqs)
     ELSE LET v == pickle_load(seek(d.Fileobj, 0)) IN
          IF v.raised # "none" THEN Raise(v.raised, b, reqs)
          ELSE Return(v.value, b, reqs)

(* Variant of get whose download is not inside the try block.              *)
get_download_unguarded(self, b, key, fail) ==
  LET e == _key_exists(self, b, key, fail) IN
  IF ~e.ret THEN Return("None", b, e.reqs)
  ELSE
    LET value_file == BytesIO
        d == download_fileobj(b, self.bucket_name, _get_full_key(self, key),
                              value_file, fail)
        reqs == e.reqs \o Req("download_fileobj", d)
    IN IF d.outcome # "ok" THEN Raise("ClientError", b, reqs)
       ELSE LET v == pickle_load(seek(d.Fileobj, 0)) IN
            IF v.raised # "none" THEN Raise(v.raised, b, reqs)
            ELSE Return(v.value, b, reqs)

get(self, b, key, fail) ==
  LET e == _key_exists(self, b, key, fail) IN
  IF ~e.ret THEN Return("None", b, e.reqs)
  ELSE
    LET value_file == BytesIO
        d == download_fileobj(b, self.bucket_name, _get_full_key(self, key),
                              value_file, fail)
        reqs == e.reqs \o Req("download_fileobj", d)
    IN IF d.outcome # "ok"
         THEN (* except Exception: log, return None *)
              Return("None", b, reqs)
         ELSE (* else: value_file.seek(0); return pickle.load(value_file), *)
              (* outside the try block                                     *)
              LET v == pickle_load(seek(d.Fileobj, 0)) IN
              IF v.raised # "none" THEN Raise(v.raised, b, reqs)
              ELSE Return(v.value, b, reqs)

(* Variant of delete without the existence probe.                          *)
delete_without_check(self, b, key, fail) ==
  LET d == delete_object(b, <<self.bucket_name, _get_full_key(self, key)>>,
                         NoKwargs, fail)
      reqs == Req("delete_object", d)
  IN IF d.outcome # "ok" THEN Return("False", b, reqs)
     ELSE Return("True", d.bucket, reqs)

delete(self, b, key, fail) ==
  LET e == _key_exists(self, b, key, fail) IN
  IF ~e.ret THEN Return("False", b, e.reqs)
  ELSE
    (* self.s3_client.delete_object(self.bucket_name, full_key): both      *)
    (* arguments are positional                                            *)
    LET d == delete_object(b, <<self.bucket_name, _get_full_key(self, key)>>,
                           NoKwargs, fail)
        reqs == e.reqs \o Req("delete_object", d)
    IN IF d.outcome # "ok" THEN Return("False", b, reqs)
       ELSE Return("True", d.bucket, reqs)

(* Variant of set that takes timeout=0 as "expired at once" and stores     *)
(* nothing.                                                                *)
set_honours_timeout(self, b, key, value, timeout, fail) ==
  LET dumped == pickle_dump(value, BytesIO) IN
  IF dumped.raised # "none" THEN Raise(dumped.raised, b, <<>>)
  ELSE IF timeout = <<0>> THEN Return("True", b, <<>>)
  ELSE
    LET value_file == seek(dumped.file, 0)
        u == upload_fileobj(b, value_file, self.bucket_name,
                            _get_full_key(self, key), fail)
        reqs == Req("upload_fileobj", u)
    IN IF u.outcome # "ok" THEN Return("False", b, reqs)
       ELSE Return("True", u.bucket, reqs)

(* Variant of set that tries the upload a second time when it fails.       *)
set_with_retry(self, b, key, value, timeout, fail) ==
  LET dumped == pickle_dump(value, BytesIO) IN
  IF dumped.raised # "none" THEN Raise(dumped.raised, b, <<>>)
  ELSE
    LET value_file == seek(dumped.file, 0)
        u == upload_fileobj(b, value_file, self.bucket_name,
                            _get_full_key(self, key), fail)
        reqs == Req("upload_fileobj", u)
    IN IF u.outcome = "ok" THEN Return("True", u.bucket, reqs)
       ELSE LET u2 == upload_fileobj(b, value_file, self.bucket_name,
                                     _get_full_key(self, key), fail)
                reqs2 == reqs \o Req("upload_fileobj", u2)
            IN IF u2.outcome # "ok" THEN Return("False", b, reqs2)
               ELSE Return("True", u2.bucket, reqs2)

(* Variant of set that leaves out value_file.seek(0).                      *)
set_without_seek(self, b, key, value, timeout, fail) ==
  LET dumped == pickle_dump(value, BytesIO) IN
  IF dumped.raised # "none" THEN Raise(dumped.raised, b, <<>>)
  ELSE
    LET u == upload_fileobj(b, dumped.file, self.bucket_name,
                            _get_full_key(self, key), fail)
        reqs == Req("upload_fileobj", u)
    IN IF u.outcome # "ok" THEN Return("False", b, reqs)
       ELSE Return("True", u.bucket, reqs)

(* Variant of set with pickle.dump inside the try block.                   *)
set_dump_in_try(self, b, key, value, timeout, fail) ==
  LET dumped == pickle_dump(value, BytesIO) IN
  IF dumped.raised # "none" THEN Return("False", b, <<>>)
  ELSE
    LET value_file == seek(dumped.file, 0)
        u == upload_fileobj(b, value_file, self.bucket_name,
                            _get_full_key(self, key), fail)
        reqs == Req("upload_fileobj", u)
    IN IF u.outcome # "ok" THEN Return("False", b, reqs)
       ELSE Return("True", u.bucket, reqs)

set(self, b, key, value, timeout, fail) ==
  (* value_file = io.BytesIO(); pickle.dump(value, value_file): before the *)
  (* try block, so a pickling error leaves set as an exception             *)
  LET dumped == pickle_dump(value, BytesIO) IN
  IF dumped.raised # "none" THEN Raise(dumped.raised, b, <<>>)
  ELSE
    LET value_file == seek(dumped.file, 0)
        u == upload_fileobj(b, value_file, self.bucket_name,
                            _get_full_key(self, key), fail)
        reqs == Req("upload_fileobj", u)
    IN IF u.outcome # "ok" THEN Return("False", b, reqs)
       ELSE Return("True", u.bucket, reqs)

(* Variant of add without the existence probe.                             *)
add_without_check(self, b, key, value, timeout, fail) ==
  set(self, b, key, value, timeout, fail)

add(self, b, key, value, timeout, fail) ==
  LET e == _key_exists(self, b, key, fail) IN
  IF e.ret THEN Return("False", b, e.reqs)
  ELSE LET s == set(self, b, key, value, timeout, fail)
       IN [s EXCEPT !.reqs = e.reqs \o @]

(* Variant of get_download whose download is not inside the try block.     *)
get_download_raises(self, b, key, fail) ==
  LET value_file == BytesIO
      d == download_fileobj(b, self.bucket_name, _get_full_key(self, key),
                            value_file, fail)
      reqs == Req("download_fileobj", d)
  IN IF d.outcome # "ok" THEN Raise("ClientError", b, reqs)
     ELSE LET v == pickle_load(seek(d.Fileobj, 0)) IN
          IF v.raised # "none" THEN Raise(v.raised, b, reqs)
          ELSE Return(v.value, b, reqs)

(* get from value_file = io.BytesIO() on: the else branch that follows a   *)
(* successful probe.                                                       *)
get_download(self, b, key, fail) ==
  LET value_file == BytesIO
      d == download_fileobj(b, self.bucket_name, _get_full_key(self, key),
                            value_file, fail)
      reqs == Req("download_fileobj", d)
  IN IF d.outcome # "ok" THEN Return("None", b, reqs)
     ELSE LET v == pickle_load(seek(d.Fileobj, 0)) IN
          IF v.raised # "none" THEN Raise(v.raised, b, reqs)
          ELSE Return(v.value, b, reqs)

(* delete from the delete_object call on: the else branch that follows a   *)
(* successful probe.                                                       *)
delete_request(self, b, key, fail) ==
  LET d == delete_object(b, <<self.bucket_name, _get_full_key(self, key)>>,
                         NoKwargs, fail)
      reqs == Req("delete_object", d)
  IN IF d.outcome # "ok" THEN Return("False", b, reqs)
     ELSE Return("True", d.bucket, reqs)

(* Variant of clear that empties the bucket.                               *)
clear_removes_all(self, b, args) ==
  IF Len(args) # 1 THEN Raise("TypeError", b, <<>>)
  ELSE Return("True", <<>>, <<>>)

(* def clear(self, key: str): the call binds exactly one argument besides  *)
(* self, and Python raises TypeError for any other number.                 *)
clear(self, b, args) ==
  IF Len(args) # 1 THEN Raise("TypeError", b, <<>>)
  ELSE Return("False", b, <<>>)

(* Variant of has that returns what the probe found.                       *)
has_returns_result(self, b, key, fail) ==
  LET e == _key_exists(self, b, key, fail)
  IN Return(IF e.ret THEN "True" ELSE "False", b, e.reqs)

(* self._key_exists(key) with no return statement: the result is None.     *)
has(self, b, key, fail) ==
  LET e == _key_exists(self, b, key, fail) IN Return("None", b, e.reqs)

(***************************************************************************)
(* State.  cache is the adapter, bucket the content of its bucket.  The    *)
(* rest records history: before is the bucket as the last call found it,   *)
(* last is the last call with its outcome, and lastWrite[k] is the call    *)
(* that stored the object now under k, if any.  peer is a second adapter   *)
(* on the same bucket and callers the calls of concurrent callers; the     *)
(* sequential specification Spec has one adapter and one caller and leaves *)
(* these two as they start.                                                *)
(***************************************************************************)
VARIABLES cache, bucket, before, last, lastWrite, peer, callers

vars == <<cache, bucket, before, last, lastWrite, peer, callers>>

NoArg == "<none>"
NoWrite == [op |-> "none", value |-> NoArg]
ForeignWrite == [op |-> "foreign", value |-> NoArg]

(* S3Cache(bucket_name, key_prefix): default_timeout=300                   *)
S3Cache(bucket_name, key_prefix) ==
  [bucket_name |-> bucket_name, key_prefix |-> key_prefix,
   default_timeout |-> default_timeout]

TheCache == S3Cache("cache-bucket", "app1:")

(* At construction the bucket holds, under each key, nothing or an object  *)
(* that another program stored there.                                      *)
InitialBuckets ==
  UNION {[{_get_full_key(TheCache, k) : k \in S} -> ForeignBlobs] :
           S \in SUBSET Keys}

(* A caller that is in no call.                                            *)
Idle == [pc |-> "idle"]

(* The concurrent callers.                                                 *)
NumCallers == 2
Callers == 1..NumCallers

Init ==
  /\ cache = TheCache
  /\ peer = TheCache
  /\ callers = [p \in Callers |-> Idle]
  /\ bucket \in InitialBuckets
  /\ before = bucket
  /\ last = [op |-> "none", key |-> NoArg, value |-> NoArg, ret |-> "NoReturn",
             raised |-> "none", reqs |-> <<>>, prior |-> NoWrite]
  /\ lastWrite = [k \in Keys |->
                    IF _get_full_key(TheCache, k) \in DOMAIN bucket
                      THEN ForeignWrite ELSE NoWrite]

(* Whether the call's request log has a request of that name that the     *)
(* store carried out.                                                      *)
Done(reqs, name) ==
  \E i \in 1..Len(reqs) : reqs[i].name = name /\ reqs[i].outcome = "ok"

Commit(op, key, value, r) ==
  /\ bucket' = r.bucket
  /\ before' = bucket
  /\ last' = [op |-> op, key |-> key, value |-> value, ret |-> r.ret,
              raised |-> r.raised, reqs |-> r.reqs,
              prior |-> IF key \in Keys THEN lastWrite[key] ELSE NoWrite]
  /\ lastWrite' =
       IF Done(r.reqs, "upload_fileobj")
         THEN [lastWrite EXCEPT ![key] = [op |-> op, value |-> value]]
       ELSE IF Done(r.reqs, "delete_object")
         THEN [lastWrite EXCEPT ![key] = NoWrite]
       ELSE lastWrite
  /\ UNCHANGED <<cache, peer, callers>>

Get(key) ==
  \E fail \in SUBSET {"head_object", "download_fileobj"} :
    Commit("get", key, NoArg, get(cache, bucket, key, fail))

Delete(key) ==
  \E fail \in SUBSET {"head_object", "delete_object"} :
    Commit("delete", key, NoArg, delete(cache, bucket, key, fail))

Set(key, value, timeout) ==
  \E fail \in SUBSET {"upload_fileobj"} :
    Commit("set", key, value, set(cache, bucket, key, value, timeout, fail))

Add(key, value, timeout) ==
  \E fail \in SUBSET {"head_object", "upload_fileobj"} :
    Commit("add", key, value, add(cache, bucket, key, value, timeout, fail))

Clear ==
  \E args \in {<<>>} \cup {<<k>> : k \in Keys} :
    Commit("clear", IF args = <<>> THEN NoArg ELSE args[1], NoArg,
           clear(cache, bucket, args))

Has(key) ==
  \E fail \in SUBSET {"head_object"} :
    Commit("has", key, NoArg, has(cache, bucket, key, fail))

Next ==
  \/ \E key \in Keys : Get(key)
  \/ \E key \in Keys : Delete(key)
  \/ \E key \in Keys, value \in Objects, timeout \in Timeouts :
       Set(key, value, timeout)
  \/ \E key \in Keys, value \in Objects, timeout \in Timeouts :
       Add(key, value, timeout)
  \/ Clear
  \/ \E key \in Keys : Has(key)

Spec == Init /\ [][Next]_vars

(***************************************************************************)
(* Vocabulary of the properties.                                           *)
(***************************************************************************)
FullKey(key) == _get_full_key(cache, key)

(* The value the bytes of a stored object decode to, or the error.         *)
Decoded(bytes) == pickle_load([buf |-> bytes, pos |-> 0])

(* The backend failed a request of the call (it was not "working").        *)
Faulted(reqs) == \E i \in 1..Len(reqs) : reqs[i].outcome = "Error"

(* A client call of the handler raised, for whatever reason.               *)
SomeRequestRaised(reqs) == \E i \in 1..Len(reqs) : reqs[i].outcome # "ok"

Called(reqs, name) == \E i \in 1..Len(reqs) : reqs[i].name = name

(* C1: round trip.  A set(k, v) that returns true leaves under k an object *)
(* that decodes to v, and a get(k) that finds the store working while the  *)
(* object under k is still the one the last successful set(k, v) stored    *)
(* (no other write or delete touched k since) returns v and raises         *)
(* nothing.                                                                *)
C1_RoundTrip ==
  /\ (last.op = "set" /\ last.ret = "True") =>
       /\ FullKey(last.key) \in DOMAIN bucket
       /\ Decoded(bucket[FullKey(last.key)]) =
            [raised |-> "none", value |-> last.value]
  /\ (last.op = "get" /\ last.prior.op = "set" /\ ~Faulted(last.reqs)) =>
       /\ last.raised = "none"
       /\ last.ret = last.prior.value

C1_Witness ==
  /\ last.op = "get"
  /\ last.prior.op = "set"
  /\ ~Faulted(last.reqs)
  /\ last.ret \in Values

(* C2: delete(k) on a key whose object exists, with the store working,     *)
(* returns true and removes the object.                                    *)
C2_DeleteExistingRemoves ==
  (last.op = "delete" /\ FullKey(last.key) \in DOMAIN before
     /\ ~Faulted(last.reqs)) =>
    /\ last.ret = "True"
    /\ FullKey(last.key) \notin DOMAIN bucket

(* C3: with the store working, add(k, v1) on an absent key returns true    *)
(* and stores v1; an add(k, v2) that finds the object a previous add       *)
(* stored returns false, uploads nothing and leaves the value v1.          *)
C3_SecondAddIsNoOp ==
  /\ (last.op = "add" /\ last.value \in Values /\ ~Faulted(last.reqs)
        /\ FullKey(last.key) \notin DOMAIN before) =>
       /\ last.ret = "True"
       /\ FullKey(last.key) \in DOMAIN bucket
       /\ Decoded(bucket[FullKey(last.key)]) =
            [raised |-> "none", value |-> last.value]
  /\ (last.op = "add" /\ last.prior.op = "add" /\ ~Faulted(last.reqs)) =>
       /\ last.ret = "False"
       /\ last.raised = "none"
       /\ ~Called(last.reqs, "upload_fileobj")
       /\ bucket = before
       /\ Decoded(bucket[FullKey(last.key)]) =
            [raised |-> "none", value |-> last.prior.value]

C3_Witness ==
  /\ last.op = "add"
  /\ last.prior.op = "add"
  /\ ~Faulted(last.reqs)
  /\ last.value \in Values
  /\ last.value # last.prior.value
  /\ last.ret = "False"

(* C4: a get that downloads an object whose bytes do not decode returns    *)
(* absent and raises nothing.                                              *)
C4_DeserializationErrorCaught ==
  (last.op = "get" /\ Done(last.reqs, "download_fileobj")
     /\ Decoded(before[FullKey(last.key)]).raised # "none") =>
    /\ last.raised = "none"
    /\ last.ret = "None"

(* C5: when a client call raises inside get, delete or set, the handler    *)
(* raises nothing, returns absent (get) or false (delete, set), makes no   *)
(* further client call (the failed one is the last, and none is repeated)  *)
(* and leaves the bucket as it found it.                                   *)
C5_StorageFailureAbsorbed ==
  (last.op \in {"get", "delete", "set"} /\ SomeRequestRaised(last.reqs)) =>
    /\ last.raised = "none"
    /\ last.ret = (IF last.op = "get" THEN "None" ELSE "False")
    /\ \A i \in 1..Len(last.reqs) :
         /\ i < Len(last.reqs) => last.reqs[i].outcome = "ok"
         /\ \A j \in 1..Len(last.reqs) :
              last.reqs[i].name = last.reqs[j].name => i = j
    /\ bucket = before

C5_Witness ==
  /\ last.op = "get"
  /\ Len(last.reqs) = 2
  /\ last.reqs[2] = [name |-> "download_fileobj", outcome |-> "Error"]
  /\ last.ret = "None"

(* C6: set(k, obj) with an object that cannot be pickled, and add(k, obj)  *)
(* on an absent key, raise the pickling error, make no upload call and     *)
(* leave the bucket as it was.                                             *)
C6_SerializationErrorPropagates ==
  (/\ last.value \in Objects \ Values
   /\ \/ last.op = "set"
      \/ last.op = "add" /\ FullKey(last.key) \notin DOMAIN before) =>
    /\ last.raised = "PicklingError"
    /\ ~Called(last.reqs, "upload_fileobj")
    /\ bucket = before

C6_Witness ==
  /\ last.op = "set"
  /\ last.value = Unpicklable
  /\ last.raised = "PicklingError"
  /\ FullKey(last.key) \in DOMAIN bucket

(* C7: for a key that was never written, whatever was done on other keys,  *)
(* the existence probe is false and get returns absent, with the store     *)
(* working or not.                                                         *)
C7_NeverWrittenIsAbsent ==
  /\ \A key \in Keys :
       lastWrite[key].op = "none" =>
         \A fail \in SUBSET {"head_object", "download_fileobj"} :
           /\ ~_key_exists(cache, bucket, key, fail).ret
           /\ get(cache, bucket, key, fail) =
                Return("None", bucket, get(cache, bucket, key, fail).reqs)
  /\ (last.op \in {"get", "has"} /\ last.prior.op = "none") =>
       /\ last.ret = "None"
       /\ last.raised = "none"
       /\ last.reqs[1].outcome # "ok"

C7_Witness ==
  /\ last.op = "get"
  /\ last.prior.op = "none"
  /\ last.reqs = <<[name |-> "head_object", outcome |-> "NotFound"]>>
  /\ \E other \in Keys \ {last.key} : lastWrite[other].op \in {"set", "add"}

(* C8: delete(k) on a key with no stored object returns false, makes no    *)
(* delete call and leaves the bucket as it was.                            *)
C8_DeleteAbsentNoEffect ==
  (last.op = "delete" /\ FullKey(last.key) \notin DOMAIN before) =>
    /\ last.ret = "False"
    /\ last.raised = "none"
    /\ ~Called(last.reqs, "delete_object")
    /\ bucket = before

C8_Witness ==
  /\ last.op = "delete"
  /\ FullKey(last.key) \notin DOMAIN before
  /\ DOMAIN before # {}
  /\ last.ret = "False"

(* C9: clear() called with no argument returns false and leaves the bucket *)
(* as it was.                                                              *)
C9_ClearReturnsFalse ==
  (last.op = "clear" /\ last.key = NoArg) =>
    /\ last.raised = "none"
    /\ last.ret = "False"
    /\ bucket = before

(* C10: add(k, v) on a key that already holds an object returns false and  *)
(* leaves the object unchanged, also when storage requests fail.           *)
C10_AddNeverOverwrites ==
  (last.op = "add" /\ FullKey(last.key) \in DOMAIN before) =>
    /\ last.ret = "False"
    /\ FullKey(last.key) \in DOMAIN bucket
    /\ bucket[FullKey(last.key)] = before[FullKey(last.key)]

(***************************************************************************)
(* Two adapters on one bucket: SpecShared.  cache and peer are constructed *)
(* on the same bucket with different prefixes, and every call goes through *)
(* one of them.  Prefixes and cache keys are written here as sequences of  *)
(* characters, so that prefix + key is their concatenation character by    *)
(* character.                                                              *)
(***************************************************************************)
SharedPrefixes == <<(<<"a">>), (<<"a", "b">>), (<<"b">>)>>
SharedKeys == {<<"c">>, <<"b", "c">>}

SharedInit ==
  /\ \E i, j \in DOMAIN SharedPrefixes :
       /\ i < j
       /\ cache = S3Cache("cache-bucket", SharedPrefixes[i])
       /\ peer = S3Cache("cache-bucket", SharedPrefixes[j])
  /\ bucket = <<>>
  /\ before = bucket
  /\ last = [op |-> "none", key |-> <<>>, value |-> NoArg, ret |-> "NoReturn",
             raised |-> "none", reqs |-> <<>>, prior |-> NoWrite,
             by |-> cache]
  /\ lastWrite = [k \in Keys |-> NoWrite]
  /\ callers = [p \in Callers |-> Idle]

(* The call op(key, value) made through the adapter self, with outcome r.  *)
SharedCommit(self, op, key, value, r) ==
  /\ bucket' = r.bucket
  /\ before' = bucket
  /\ last' = [op |-> op, key |-> key, value |-> value, ret |-> r.ret,
              raised |-> r.raised, reqs |-> r.reqs, prior |-> NoWrite,
              by |-> self]
  /\ UNCHANGED <<cache, peer, lastWrite, callers>>

SharedGet(self, key) ==
  \E fail \in SUBSET {"head_object"} :
    SharedCommit(self, "get", key, NoArg, get(self, bucket, key, fail))

SharedDelete(self, key) ==
  \E fail \in SUBSET {"head_object"} :
    SharedCommit(self, "delete", key, NoArg, delete(self, bucket, key, fail))

SharedSet(self, key, value, timeout) ==
  \E fail \in SUBSET {"upload_fileobj"} :
    SharedCommit(self, "set", key, value,
                 set(self, bucket, key, value, timeout, fail))

SharedAdd(self, key, value, timeout) ==
  \E fail \in SUBSET {"head_object", "upload_fileobj"} :
    SharedCommit(self, "add", key, value,
                 add(self, bucket, key, value, timeout, fail))

SharedHas(self, key) ==
  \E fail \in SUBSET {"head_object"} :
    SharedCommit(self, "has", key, NoArg, has(self, bucket, key, fail))

(* Every call passes a picklable value and leaves timeout at its default.  *)
SharedNext ==
  \/ \E self \in {cache, peer}, key \in SharedKeys : SharedGet(self, key)
  \/ \E self \in {cache, peer}, key \in SharedKeys : SharedDelete(self, key)
  \/ \E self \in {cache, peer}, key \in SharedKeys, value \in Values :
       SharedSet(self, key, value, <<>>)
  \/ \E self \in {cache, peer}, key \in SharedKeys, value \in Values :
       SharedAdd(self, key, value, <<>>)
  \/ \E self \in {cache, peer}, key \in SharedKeys : SharedHas(self, key)

SpecShared == SharedInit /\ [][SharedNext]_vars

(* The objects that one bucket content has and the other has not, or has   *)
(* with other bytes.                                                       *)
Touched(b1, b2) ==
  {o \in DOMAIN b1 \cup DOMAIN b2 :
     o \notin DOMAIN b1 \/ o \notin DOMAIN b2 \/ b1[o] # b2[o]}

OtherAdapter(self) == IF self = cache THEN peer ELSE cache

(* p is an initial segment of q.                                           *)
IsInitialSegment(p, q) == Len(p) <= Len(q) /\ SubSeq(q, 1, Len(p)) = p

(* The objects the adapter reads for its cache keys.                       *)
ObjectsOf(self) == {_get_full_key(self, key) : key \in SharedKeys}

(* C11, as claimed: a call on cache key k through an adapter touches only  *)
(* the object prefix + k, and, the prefixes of the two adapters being      *)
(* different, touches no object that the other adapter reads for any of    *)
(* its cache keys.                                                         *)
C11_PrefixPartitions ==
  last.op # "none" =>
    /\ Touched(before, bucket) \subseteq {last.by.key_prefix \o last.key}
    /\ Touched(before, bucket) \cap ObjectsOf(OtherAdapter(last.by)) = {}

(* C11, amended: a call on cache key k through an adapter touches only the *)
(* object prefix + k, and when neither prefix is an initial segment of the *)
(* other it touches no object that the other adapter reads for any of its  *)
(* cache keys.                                                             *)
C11_PrefixFreePartitions ==
  last.op # "none" =>
    /\ Touched(before, bucket) \subseteq {last.by.key_prefix \o last.key}
    /\ (/\ ~IsInitialSegment(cache.key_prefix, peer.key_prefix)
        /\ ~IsInitialSegment(peer.key_prefix, cache.key_prefix)) =>
         Touched(before, bucket) \cap ObjectsOf(OtherAdapter(last.by)) = {}

C11_Witness ==
  /\ ~IsInitialSegment(cache.key_prefix, peer.key_prefix)
  /\ ~IsInitialSegment(peer.key_prefix, cache.key_prefix)
  /\ last.op = "set"
  /\ last.ret = "True"
  /\ Touched(before, bucket) = {last.by.key_prefix \o last.key}
  /\ ObjectsOf(OtherAdapter(last.by)) \cap DOMAIN before # {}

(***************************************************************************)
(* Properties of the sequential specification Spec, continued.             *)
(***************************************************************************)
(* The timeouts a caller may pass: None, 0 ("never expires"), 1 and the    *)
(* default.                                                                *)
AnyTimeout == Timeouts \cup {<<1>>, <<default_timeout>>}

(* The adapter with another default_timeout.                               *)
WithDefaultTimeout(self, t) == [self EXCEPT !.default_timeout = t]

(* What the last call did, as a handler outcome.                           *)
LastOutcome ==
  [ret |-> last.ret, raised |-> last.raised, bucket |-> bucket,
   reqs |-> last.reqs]

C13_HasReturnsNothing ==
  last.op = "has" =>
    /\ Len(last.reqs) = 1
    /\ last.reqs[1].name = "head_object"
    /\ last.reqs[1].outcome \in
         {"Error",
          IF FullKey(last.key) \in DOMAIN before THEN "ok" ELSE "NotFound"}
    /\ last.ret = "None"
    /\ last.raised = "none"
    /\ bucket = before

C13_Witness ==
  /\ last.op = "has"
  /\ last.reqs = <<[name |-> "head_object", outcome |-> "ok"]>>
  /\ last.ret = "None"
  /\ FullKey(last.key) \in DOMAIN bucket

(***************************************************************************)
(* Concurrent callers: SpecConc.  The adapter has no lock, so the client   *)
(* calls of different callers interleave; a handler is atomic only from    *)
(* one client call to the next.  Each caller makes one call, all on the    *)
(* same cache key, with picklable values and a working store (failed       *)
(* requests are the matter of Spec).  Besides the callers, a lifecycle     *)
(* rule of the bucket (set's docstring: "use lifecycle policies instead")  *)
(* may remove an object at any time.                                       *)
(*                                                                         *)
(* callers[p].pc is where caller p stands: "idle" before its call, "probe" *)
(* before the head_object call of _key_exists, "request" before the second *)
(* client call of the handler (for set: before its only one), "returned"   *)
(* after the call.                                                         *)
(***************************************************************************)
ConcKeys == {"k1"}

ConcInit ==
  /\ cache = TheCache
  /\ peer = TheCache
  /\ bucket \in UNION {[{_get_full_key(TheCache, k) : k \in S} -> ForeignBlobs] :
                         S \in SUBSET ConcKeys}
  /\ before = bucket
  /\ last = [op |-> "none", key |-> NoArg, value |-> NoArg, ret |-> "NoReturn",
             raised |-> "none", reqs |-> <<>>, prior |-> NoWrite]
  /\ lastWrite = [k \in Keys |->
                    IF _get_full_key(TheCache, k) \in DOMAIN bucket
                      THEN ForeignWrite ELSE NoWrite]
  /\ callers = [p \in Callers |-> Idle]

(* The whole handler of the caller's call, run on bucket content b.        *)
Handler(c, b) ==
  CASE c.op = "get" -> get(cache, b, c.key, {})
    [] c.op = "delete" -> delete(cache, b, c.key, {})
    [] c.op = "set" -> set(cache, b, c.key, c.value, <<>>, {})
    [] c.op = "add" -> add(cache, b, c.key, c.value, <<>>, {})

(* The handler from its second client call on, run on bucket content b.    *)
SecondHalf(c, b) ==
  CASE c.op = "get" -> get_download(cache, b, c.key, {})
    [] c.op = "delete" -> delete_request(cache, b, c.key, {})
    [] c.op = "add" -> set(cache, b, c.key, c.value, <<>>, {})

Finish(p, r, reqs) ==
  /\ callers' = [callers EXCEPT ![p] =
                   [@ EXCEPT !.pc = "returned", !.ret = r.ret,
                             !.raised = r.raised, !.reqs = reqs]]
  /\ bucket' = r.bucket
  /\ lastWrite' =
       IF Done(r.reqs, "upload_fileobj")
         THEN [lastWrite EXCEPT ![callers[p].key] =
                 [op |-> callers[p].op, value |-> callers[p].value]]
       ELSE IF Done(r.reqs, "delete_object")
         THEN [lastWrite EXCEPT ![callers[p].key] = NoWrite]
       ELSE lastWrite

(* The callers are numbered in the order in which they make their calls.   *)
Invoke(p, op, key, value) ==
  /\ callers[p].pc = "idle"
  /\ \A q \in Callers : q < p => callers[q].pc # "idle"
  /\ callers' = [callers EXCEPT ![p] =
                   [pc |-> IF op = "set" THEN "request" ELSE "probe",
                    op |-> op, key |-> key, value |-> value, reqs |-> <<>>,
                    ret |-> "NoReturn", raised |-> "none"]]
  /\ UNCHANGED <<cache, peer, bucket, before, last, lastWrite>>

(* get, delete, add: the existence probe.  The handler ends here when, run *)
(* on the bucket as it is now, it makes no second client call.             *)
ProbeStep(p) ==
  /\ callers[p].pc = "probe"
  /\ LET r == Handler(callers[p], bucket) IN
       IF Len(r.reqs) <= 1
         THEN Finish(p, r, r.reqs)
         ELSE /\ callers' = [callers EXCEPT ![p] =
                               [@ EXCEPT !.pc = "request",
                                         !.reqs = SubSeq(r.reqs, 1, 1)]]
              /\ UNCHANGED <<bucket, lastWrite>>
  /\ UNCHANGED <<cache, peer, before, last>>

(* The download of get, the delete request of delete, the upload of set    *)
(* and add, on the bucket as it is now, and the return of the handler.     *)
RequestStep(p) ==
  /\ callers[p].pc = "request"
  /\ LET r == IF callers[p].op = "set" THEN Handler(callers[p], bucket)
              ELSE SecondHalf(callers[p], bucket)
     IN Finish(p, r, callers[p].reqs \o r.reqs)
  /\ UNCHANGED <<cache, peer, before, last>>

LifecycleExpire(key) ==
  /\ _get_full_key(cache, key) \in DOMAIN bucket
  /\ bucket' = [o \in DOMAIN bucket \ {_get_full_key(cache, key)} |-> bucket[o]]
  /\ lastWrite' = [lastWrite EXCEPT ![key] = [op |-> "expired", value |-> NoArg]]
  /\ UNCHANGED <<cache, peer, before, last, callers>>

ConcNext ==
  \/ \E p \in Callers, key \in ConcKeys :
       Invoke(p, "get", key, NoArg) \/ Invoke(p, "delete", key, NoArg)
  \/ \E p \in Callers, key \in ConcKeys, value \in Values :
       Invoke(p, "set", key, value) \/ Invoke(p, "add", key, value)
  \/ \E p \in Callers : ProbeStep(p)
  \/ \E p \in Callers : RequestStep(p)
  \/ \E key \in ConcKeys : LifecycleExpire(key)

SpecConc == ConcInit /\ [][ConcNext]_vars

(***************************************************************************)
(* Properties of the concurrent specification SpecConc.                    *)
(***************************************************************************)
(* Caller p has returned from op(key, ...) with the value ret.             *)
Returned(p, op, key, ret) ==
  /\ callers[p].pc = "returned"
  /\ callers[p].op = op
  /\ callers[p].key = key
  /\ callers[p].raised = "none"
  /\ callers[p].ret = ret

(* The object under the key holds the pickled value.                       *)
Holds(key, value) ==
  /\ FullKey(key) \in DOMAIN bucket
  /\ Decoded(bucket[FullKey(key)]) = [raised |-> "none", value |-> value]

ProbedThenUploaded ==
  <<[name |-> "head_object", outcome |-> "NotFound"],
    [name |-> "upload_fileobj", outcome |-> "ok"]>>

SetCallers(key) ==
  {p \in Callers : /\ callers[p].pc # "idle"
                   /\ callers[p].op = "set"
                   /\ callers[p].key = key}

(* C15: once all the concurrent set calls on a key have returned true, and *)
(* the last change of the object was an upload of set, the object exists   *)
(* and holds the value of exactly one of these calls, the one that         *)
(* uploaded last.                                                          *)
C15_LastWriteWins ==
  \A key \in ConcKeys :
    (/\ SetCallers(key) # {}
     /\ \A p \in SetCallers(key) : Returned(p, "set", key, "True")
     /\ lastWrite[key].op = "set") =>
      /\ FullKey(key) \in DOMAIN bucket
      /\ \E value \in Values :
           /\ Holds(key, value)
           /\ value = lastWrite[key].value
           /\ \E p \in SetCallers(key) : callers[p].value = value

C15_Witness ==
  \E key \in ConcKeys :
    /\ Returned(1, "set", key, "True")
    /\ Returned(2, "set", key, "True")
    /\ callers[1].value # callers[2].value
    /\ Holds(key, callers[1].value)

(* The other order of C15_Witness: the value of caller 2 is the one left.  *)
C15_OtherOrder ==
  \E key \in ConcKeys :
    /\ Returned(1, "set", key, "True")
    /\ Returned(2, "set", key, "True")
    /\ callers[1].value # callers[2].value
    /\ Holds(key, callers[2].value)

(* C19: a get whose probe found the object and whose download did not (the *)
(* object was removed in between) returns None and raises nothing; and a   *)
(* get that returns a value returns the whole value of a set or add call   *)
(* on the same key whose upload the store carried out.                     *)
C19_GetToleratesRemoval ==
  \A p \in Callers :
    (callers[p].pc = "returned" /\ callers[p].op = "get") =>
      /\ (Len(callers[p].reqs) = 2 /\ callers[p].reqs[2].outcome # "ok") =>
           /\ callers[p].raised = "none"
           /\ callers[p].ret = "None"
      /\ (callers[p].raised = "none" /\ callers[p].ret # "None") =>
           \E q \in Callers :
             /\ callers[q].pc = "returned"
             /\ callers[q].op \in {"set", "add"}
             /\ callers[q].key = callers[p].key
             /\ callers[q].value = callers[p].ret
             /\ Done(callers[q].reqs, "upload_fileobj")

C19_Witness ==
  \E p \in Callers :
    /\ Returned(p, "get", callers[p].key, "None")
    /\ callers[p].reqs = <<[name |-> "head_object", outcome |-> "ok"],
                           [name |-> "download_fileobj", outcome |-> "NotFound"]>>

(* A get that returned the value a concurrent set call stored.             *)
C19_ValueWitness ==
  \E p, q \in Callers :
    /\ callers[p].pc = "returned" /\ callers[p].op = "get"
    /\ callers[p].ret \in Values
    /\ callers[q].pc = "returned" /\ callers[q].op = "set"
    /\ callers[q].value = callers[p].ret
    /\ q < p

(***************************************************************************)
(* Properties of the sequential specification Spec: lifecycle, order and   *)
(* number of the client calls.                                             *)
(***************************************************************************)
(* C16: what a call changes in the bucket is at most the object of its own *)
(* key, created or overwritten by an upload of set or add that the store   *)
(* carried out, or removed by a delete request of delete that the store    *)
(* carried out; get, has and clear change nothing; every other object is,  *)
(* after the call, what it was before.                                     *)
C16_Lifecycle ==
  /\ \A o \in Touched(before, bucket) :
       /\ o = FullKey(last.key)
       /\ \/ /\ last.op \in {"set", "add"}
             /\ Done(last.reqs, "upload_fileobj")
             /\ o \in DOMAIN bucket
          \/ /\ last.op = "delete"
             /\ Done(last.reqs, "delete_object")
             /\ o \notin DOMAIN bucket
  /\ last.op \in {"get", "has", "clear"} => bucket = before
  /\ \A o \in DOMAIN before :
       (o \notin DOMAIN bucket \/ bucket[o] # before[o]) =>
         /\ last.op \in {"set", "add", "delete"}
         /\ o = FullKey(last.key)

C16_Witness ==
  /\ last.op \in {"get", "has", "clear"}
  /\ last.raised = "none"
  /\ \A key \in Keys :
       /\ lastWrite[key].op = "set"
       /\ FullKey(key) \in DOMAIN bucket
       /\ Decoded(bucket[FullKey(key)]).value = lastWrite[key].value

(* C17: get, delete, add and has make the existence probe as their first   *)
(* client call and only once; get makes no download and delete no delete   *)
(* call when the probe fails, add makes no upload when the probe succeeds; *)
(* set makes no probe, its only client call is the upload.                 *)
C17_ProbeGates ==
  /\ last.op \in {"get", "delete", "add", "has"} =>
       /\ Len(last.reqs) >= 1
       /\ \A i \in 1..Len(last.reqs) :
            (last.reqs[i].name = "head_object") = (i = 1)
  /\ (last.op = "get" /\ last.reqs[1].outcome # "ok") =>
       ~Called(last.reqs, "download_fileobj")
  /\ (last.op = "delete" /\ last.reqs[1].outcome # "ok") =>
       ~Called(last.reqs, "delete_object")
  /\ (last.op = "add" /\ last.reqs[1].outcome = "ok") =>
       ~Called(last.reqs, "upload_fileobj")
  /\ last.op = "set" =>
       /\ ~Called(last.reqs, "head_object")
       /\ last.value \in Values =>
            /\ Len(last.reqs) = 1
            /\ last.reqs[1].name = "upload_fileobj"

C17_Witness ==
  /\ last.op = "delete"
  /\ FullKey(last.key) \in DOMAIN before
  /\ last.reqs = <<[name |-> "head_object", outcome |-> "Error"]>>
  /\ last.ret = "False"

(* The number of requests of a call that went to the store: a client call  *)
(* that raised TypeError on its arguments sent nothing.                    *)
RequestsSent(reqs) ==
  Cardinality({i \in 1..Len(reqs) : reqs[i].outcome # "TypeError"})

(* C18, as claimed: every call of get, set, add, delete, has or clear      *)
(* sends one or two storage requests.                                      *)
C18_OneOrTwoRequests ==
  last.op # "none" => RequestsSent(last.reqs) \in {1, 2}

(* C18, amended: no call makes more than two client calls and none makes   *)
(* the same client call twice (no retry); get, delete and add send one or  *)
(* two storage requests, has exactly one, set exactly one unless pickling  *)
(* fails before the upload (then none), and clear none.                    *)
C18_AtMostTwoRequests ==
  /\ Len(last.reqs) <= 2
  /\ \A i, j \in 1..Len(last.reqs) :
       last.reqs[i].name = last.reqs[j].name => i = j
  /\ last.op \in {"get", "delete", "add"} =>
       RequestsSent(last.reqs) \in {1, 2}
  /\ last.op = "has" => RequestsSent(last.reqs) = 1
  /\ last.op = "set" =>
       RequestsSent(last.reqs) =
         (IF last.raised = "PicklingError" THEN 0 ELSE 1)
  /\ last.op = "clear" => RequestsSent(last.reqs) = 0

C18_Witness ==
  /\ last.op = "clear"
  /\ last.ret = "False"
  /\ last.reqs = <<>>
  /\ DOMAIN bucket # {}

====
